---- MODULE Spec2Model ----
(***************************************************************************)
(* Model of scrapers/thesisbr_ckan_httpx.py: the CKAN helpers              *)
(* (sanitize_filename, ckan_call, download_stream, download_with_retry)    *)
(* and the three CLI actions run by main.                                  *)
(*                                                                         *)
(* Strings whose characters matter (file names given to sanitize_filename) *)
(* are sequences of one-character tokens; control characters are written   *)
(* by name ("CR", "LF", "TAB", "FF", "NUL", "ESC").  URLs and paths are    *)
(* sequences of tokens (stem, ".", extension, ".part").                    *)
(***************************************************************************)
EXTENDS Integers, Sequences, FiniteSets, TLC

VARIABLES
    pc,                 \* position of the process
    args,               \* argparse.Namespace built by main
    TIMEOUT_S,          \* module global TIMEOUT_S
    default_timeout_s,  \* value bound to the timeout_s default parameters at def time
    used,               \* timeouts of the HTTP requests issued so far
    show,               \* how the initial package_show / group_show ended
    resources,          \* result["resources"] of the initial package_show
    xlsx,               \* the filtered list iterated by the download loop
    i,                  \* loop index (enumerate, 1-based)
    attempt,            \* download_with_retry: attempt
    last_err,           \* download_with_retry: last_err
    events,             \* trace of the current download_with_retry call
    touched,            \* paths created or changed during the current call
    calls,              \* indices (in xlsx) download_with_retry was invoked for
    ret,                \* how the last download_with_retry call ended
    tried,              \* how the last download_stream call ended
    fs,                 \* files of the output directory: path -> content
    packages,           \* datasets of the group
    fetched,            \* outcome of each per-dataset package_show so far
    rows,               \* action_list_group: rows
    csv_file,           \* content of the CSV destination
    out,                \* messages printed
    exit_code,          \* value returned by main
    top_exc,            \* exception that reached main's handlers
    interrupted,        \* the user has interrupted
    san_in,             \* argument of sanitize_filename
    san_out,            \* its result
    san_pc

mvars == <<pc, args, TIMEOUT_S, default_timeout_s, used, show, resources, xlsx, i,
           attempt, last_err, events, touched, calls, ret, tried, fs, packages,
           fetched, rows, csv_file, out, exit_code, top_exc, interrupted>>
svars == <<san_in, san_out, san_pc>>
vars == <<mvars, svars>>

(***************************************************************************)
(* Bounds                                                                  *)
(***************************************************************************)
MaxLen == 3     \* longest file name given to sanitize_filename
MaxRetry == 2   \* largest --retry
MaxRes == 2     \* most resources in a dataset
MaxPkgs == 2    \* most datasets in a group

None == "None"

(***************************************************************************)
(* sanitize_filename                                                       *)
(***************************************************************************)
\* characters str.strip() and the pattern \s treat as whitespace
Whitespace == {" ", "TAB", "LF", "CR", "FF"}
\* the character class of the first re.sub
ReservedClass == {"\\", "/", ":", "*", "?", "\"", "<", ">", "|", "CR", "LF", "TAB"}
PathSeparators == {"/", "\\"}
ControlChars == {"CR", "LF", "TAB", "FF", "NUL", "ESC"}
Alphabet == {"/", "\\", ":", "|", "CR", "LF", "TAB", "FF", "NUL", "ESC", " ", "a"}

RECURSIVE lstrip(_)
lstrip(s) == IF s # <<>> /\ Head(s) \in Whitespace THEN lstrip(Tail(s)) ELSE s

RECURSIVE rstrip(_)
rstrip(s) ==
    IF s # <<>> /\ s[Len(s)] \in Whitespace
    THEN rstrip(SubSeq(s, 1, Len(s) - 1)) ELSE s

strip(s) == rstrip(lstrip(s))

\* re.sub("[class]+", rep, s): every maximal run of class characters becomes rep
RECURSIVE re_sub_runs(_, _, _)
re_sub_runs(class, rep, s) ==
    IF s = <<>> THEN <<>>
    ELSE IF Head(s) \in class
         THEN IF Len(s) >= 2 /\ s[2] \in class
              THEN re_sub_runs(class, rep, Tail(s))
              ELSE <<rep>> \o re_sub_runs(class, rep, Tail(s))
         ELSE <<Head(s)>> \o re_sub_runs(class, rep, Tail(s))

str_replace(s, old, new) == [k \in 1..Len(s) |-> IF s[k] = old THEN new ELSE s[k]]

arquivo == <<"a", "r", "q", "u", "i", "v", "o">>

sanitize_filename(name) ==
    LET n1 == re_sub_runs(ReservedClass, "_", strip(name))
        n2 == strip(re_sub_runs(Whitespace, " ", n1))
        n3 == str_replace(n2, " ", "_")
    IN  IF n3 = <<>> THEN arquivo ELSE n3

RECURSIVE Strings(_)
Strings(n) ==
    IF n = 0 THEN {<<>>}
    ELSE LET shorter == Strings(n - 1)
         IN  shorter \cup {Append(s, c) : s \in {t \in shorter : Len(t) = n - 1}, c \in Alphabet}

(***************************************************************************)
(* Strings of the CKAN records: formats are whole tokens, URLs and file    *)
(* names are token sequences.                                              *)
(***************************************************************************)
\* str.lower() on the tokens in use
lower(tok) ==
    CASE tok = "XLSX" -> "xlsx"
      [] tok = " XLSX " -> " xlsx "
      [] tok = "CSV" -> "csv"
      [] OTHER -> tok

\* str.strip() on the tokens in use
strip_tok(tok) ==
    CASE tok = " xlsx " -> "xlsx"
      [] tok = " XLSX " -> "XLSX"
      [] tok = " " -> ""
      [] OTHER -> tok

lower_seq(s) == [k \in 1..Len(s) |-> lower(s[k])]

endswith(s, suffix) ==
    /\ Len(s) >= Len(suffix)
    /\ SubSeq(s, Len(s) - Len(suffix) + 1, Len(s)) = suffix

\* Python's "a or b" on strings
or_str(a, b) == IF a # "" THEN a ELSE b

\* Python's "a or b" on token sequences
or_seq(a, b) == IF a # <<>> THEN a ELSE b

\* resources as package_show returns them: XLSX by URL suffix only; XLSX by
\* format, the URL with a trailing blank; not XLSX; XLSX without any URL;
\* XLSX with a download_url only
ResourceKinds ==
    { [id |-> "r1", name |-> "b", format |-> "",
       url |-> <<"b", ".", "XLSX">>, download_url |-> <<>>],
      [id |-> "r2", name |-> "b", format |-> "XLSX",
       url |-> <<"c", ".", "xlsx", " ">>, download_url |-> <<>>],
      [id |-> "r3", name |-> "", format |-> "CSV",
       url |-> <<"a", ".", "csv">>, download_url |-> <<>>],
      [id |-> "r4", name |-> "b", format |-> " XLSX ",
       url |-> <<>>, download_url |-> <<>>],
      [id |-> "r5", name |-> "b", format |-> "xlsx",
       url |-> <<>>, download_url |-> <<"d", ".", "pdf">>] }

\* the resources of the datasets of a group
GroupResourceKinds == {r \in ResourceKinds : r.id \in {"r1", "r3", "r5"}}

\* the datasets of a group, in the order group_show lists them
PackageIds == <<"d1", "d2", "d3", "d4">>
Package(k) ==
    [id |-> PackageIds[k], name |-> "n", title |-> IF k = 2 THEN "" ELSE "t"]

RECURSIVE Lists(_, _)
Lists(S, n) ==
    IF n = 0 THEN {<<>>}
    ELSE LET shorter == Lists(S, n - 1)
         IN  shorter \cup {Append(l, x) : l \in {t \in shorter : Len(t) = n - 1}, x \in S}

ResLists == Lists(ResourceKinds, MaxRes)
GroupResLists == Lists(GroupResourceKinds, MaxRes)
PkgLists == {[k \in 1..n |-> Package(k)] : n \in 0..MaxPkgs}

is_xlsx_resource(res) ==
    LET fmt == lower(strip_tok(res.format))
        url == lower_seq(strip(or_seq(res.url, res.download_url)))
    IN  fmt = "xlsx" \/ endswith(url, <<".", "xlsx">>)

res_pretty_name(res) == or_str(res.name, or_str(res.id, "arquivo"))

res_url(res) == or_seq(res.url, or_seq(res.download_url, <<>>))

(***************************************************************************)
(* Exceptions: the classes raised and the except clauses that catch them   *)
(***************************************************************************)
\* isinstance(e, httpx.HTTPError)
IsHTTPError(cls) == cls \in {"HTTPStatusError", "ConnectError", "ReadError"}
\* isinstance(e, Exception)
IsException(cls) == cls # "KeyboardInterrupt"

\* variant: "except httpx.HTTPError" in place of "except Exception"
catches_only_http_error(cls) == IsHTTPError(cls)

\* variant: the same slip around the per-dataset fetch
catches_fetch_http_only(cls) == IsHTTPError(cls)

\* variant: the generic handler of main comes before the httpx one
main_except_generic_first(cls) ==
    IF cls = "KeyboardInterrupt" THEN 130
    ELSE IF IsException(cls) THEN 1
    ELSE 2

\* line 247, "except Exception" around download_stream
catches_attempt_error(cls) == IsException(cls)

\* line 307, "except Exception" around download_with_retry
catches_download_error(cls) == IsException(cls)

\* line 336, "except Exception" around the per-dataset ckan_package_show
catches_fetch_error(cls) == IsException(cls)

\* the except clauses of main, in order
main_except(cls) ==
    IF cls = "KeyboardInterrupt" THEN 130
    ELSE IF IsHTTPError(cls) THEN 2
    ELSE 1

(***************************************************************************)
(* HTTP client factory and CKAN call                                       *)
(***************************************************************************)
DefaultTimeout == 120
DefaultRetry == 3

\* make_client(timeout_s = TIMEOUT_S), called without argument by ckan_call:
\* the timeout is the default parameter value
make_client == default_timeout_s

\* what the server and the user can make of one ckan_call
CkanOutcomes == {"ok", "status", "connect", "unsuccessful", "interrupt"}

\* the exception ckan_call raises for an outcome
ckan_call(outcome) ==
    CASE outcome = "ok" -> None
      [] outcome = "status" -> "HTTPStatusError"
      [] outcome = "connect" -> "ConnectError"
      [] outcome = "unsuccessful" -> "RuntimeError"
      [] outcome = "interrupt" -> "KeyboardInterrupt"

(***************************************************************************)
(* File name guessing and the streaming download                           *)
(***************************************************************************)
\* the Content-Disposition file name and the last segment of the final URL
Responses ==
    { [cd |-> <<"a", ".xlsx">>, path |-> <<"b", ".xlsx">>],
      [cd |-> <<>>, path |-> <<"b", ".xlsx">>],
      [cd |-> <<>>, path |-> <<>>] }

guess_filename(resp, name_hint) ==
    IF resp.cd # <<>> THEN resp.cd
    ELSE IF resp.path # <<>> THEN resp.path
    ELSE IF name_hint # "" THEN <<name_hint, ".xlsx">>
    ELSE <<"arquivo", ".xlsx">>

\* variant: the download is written in place
tmp_path_in_place(out_path) == out_path

\* out_path.with_suffix(out_path.suffix + ".part")
tmp_path(out_path) == out_path \o <<".part">>

FileNames == {<<"a", ".xlsx">>, <<"b", ".xlsx">>}
AllPaths == FileNames \cup {tmp_path(n) : n \in FileNames}

\* variant: the temporary file is copied, not moved
replace_keeps_source(fsys, src, dst) == [fsys EXCEPT ![dst] = fsys[src]]

\* Path.replace
replace(fsys, src, dst) ==
    IF src = dst THEN fsys
    ELSE [fsys EXCEPT ![dst] = fsys[src], ![src] = "absent"]

write_file(fsys, path, content) == [fsys EXCEPT ![path] = content]

\* where one download_stream call can stop
StreamOutcomes == {"ok", "connect", "status", "open", "read", "write",
                   "rename", "interrupt"}

\* download_stream: the files after the call, the exception raised (or
\* None) and the value returned
download_stream(fsys, resp, name_hint, outcome) ==
    LET filename == guess_filename(resp, name_hint)
        out_path == filename
        tmp == tmp_path(out_path)
        opened == write_file(fsys, tmp, "partial")
        written == write_file(fsys, tmp, "full")
    IN  CASE outcome = "connect" ->
               [fs |-> fsys, exc |-> "ConnectError", value |-> <<>>, out_path |-> <<>>]
          [] outcome = "status" ->
               [fs |-> fsys, exc |-> "HTTPStatusError", value |-> <<>>, out_path |-> <<>>]
          [] outcome = "open" ->
               [fs |-> fsys, exc |-> "OSError", value |-> <<>>, out_path |-> out_path]
          [] outcome = "read" ->
               [fs |-> opened, exc |-> "ReadError", value |-> <<>>, out_path |-> out_path]
          [] outcome = "write" ->
               [fs |-> opened, exc |-> "OSError", value |-> <<>>, out_path |-> out_path]
          [] outcome = "interrupt" ->
               [fs |-> opened, exc |-> "KeyboardInterrupt", value |-> <<>>, out_path |-> out_path]
          [] outcome = "rename" ->
               [fs |-> written, exc |-> "OSError", value |-> <<>>, out_path |-> out_path]
          [] outcome = "ok" ->
               [fs |-> replace(written, tmp, out_path), exc |-> None,
                value |-> out_path, out_path |-> out_path]

\* variant: the sleep test is off by one and skips the sleep before the last attempt
should_sleep_one_early(att, retry) == att + 1 < retry

\* variant: the sleep also follows the last attempt
should_sleep_after_last(att, retry) == att <= retry

\* line 250: sleep unless this was the last attempt
should_sleep(att, retry) == att < retry

(***************************************************************************)
(* State after the module is loaded                                        *)
(***************************************************************************)
NoErr == [cls |-> None, att |-> 0]
NoRet == [kind |-> None, value |-> <<>>, exc |-> NoErr]
NoTry == [n |-> 0, outcome |-> None, exc |-> None, out_path |-> <<>>]
NoArgs == [cmd |-> None, timeout |-> DefaultTimeout, retry |-> DefaultRetry,
           csv |-> "", format |-> ""]

EmptyDir == [p \in AllPaths |-> "absent"]
\* the output directory before the run: empty, or holding an earlier download
InitialDirs == {EmptyDir, [EmptyDir EXCEPT ![<<"a", ".xlsx">>] = "old"]}

cfgvars == <<args, TIMEOUT_S, default_timeout_s>>
dsvars == <<resources, xlsx>>
dlvars == <<attempt, last_err, events, touched, calls, ret, tried, fs>>
lgvars == <<packages, fetched, rows, csv_file>>
endvars == <<exit_code, top_exc>>

InitMain ==
    /\ pc = "main"
    /\ args = NoArgs
    /\ TIMEOUT_S = DefaultTimeout
    /\ default_timeout_s = DefaultTimeout
    /\ used = {}
    /\ show = None
    /\ resources = <<>>
    /\ xlsx = <<>>
    /\ i = 0
    /\ attempt = 0
    /\ last_err = NoErr
    /\ events = <<>>
    /\ touched = {}
    /\ calls = <<>>
    /\ ret = NoRet
    /\ tried = NoTry
    /\ fs \in InitialDirs
    /\ packages = <<>>
    /\ fetched = <<>>
    /\ rows = <<>>
    /\ csv_file = <<>>
    /\ out = {}
    /\ exit_code = None
    /\ top_exc = None
    /\ interrupted = FALSE

InitSanIdle ==
    /\ san_in = <<>>
    /\ san_out = <<>>
    /\ san_pc = "idle"

Init == InitMain /\ InitSanIdle

(***************************************************************************)
(* main                                                                    *)
(***************************************************************************)
Timeouts == {DefaultTimeout, 5}
Formats == {"", " XLSX "}
CsvPaths == {"", "out.csv"}

\* the command lines: every option at its default timeout, and one run of
\* each command with --timeout
Namespaces ==
    {[cmd |-> cm, timeout |-> tm, retry |-> IF cm = "download-dataset-xlsx" THEN 1 ELSE DefaultRetry,
      csv |-> "", format |-> ""] :
        cm \in {"list-dataset-xlsx", "download-dataset-xlsx", "list-group"}, tm \in Timeouts}
    \cup
    {[cmd |-> "download-dataset-xlsx", timeout |-> DefaultTimeout, retry |-> rt,
      csv |-> "", format |-> ""] : rt \in 0..MaxRetry}
    \cup
    {[cmd |-> "list-group", timeout |-> DefaultTimeout, retry |-> DefaultRetry,
      csv |-> cs, format |-> fm] : cs \in CsvPaths, fm \in Formats}

\* lines 416-424: parse, patch the global TIMEOUT_S, enter the action
Main ==
    /\ pc = "main"
    /\ \E ns \in Namespaces :
          /\ args' = ns
          /\ TIMEOUT_S' = ns.timeout
          /\ pc' = IF ns.cmd = "list-group" THEN "group_show" ELSE "package_show"
    /\ UNCHANGED <<default_timeout_s, used, show, dsvars, i, dlvars, lgvars, out,
                   endvars, interrupted, svars>>

\* an exception reaches the handlers of main
Escape(cls) ==
    /\ pc' = "done"
    /\ top_exc' = cls
    /\ exit_code' = main_except(cls)

\* the action returns code
Return(code) ==
    /\ pc' = "done"
    /\ top_exc' = None
    /\ exit_code' = code

(***************************************************************************)
(* list-dataset-xlsx and download-dataset-xlsx                             *)
(***************************************************************************)
\* the initial ckan_package_show and what follows it up to the loop
PackageShow ==
    /\ pc = "package_show"
    /\ used' = used \cup {make_client}
    /\ \E o \in CkanOutcomes :
          /\ interrupted' = (interrupted \/ o = "interrupt")
          /\ show' = o
          /\ IF ckan_call(o) # None
             THEN /\ Escape(ckan_call(o))
                  /\ UNCHANGED <<dsvars, i, out>>
             ELSE \E rs \in ResLists :
                    LET matching == SelectSeq(rs, is_xlsx_resource)
                    IN  /\ resources' = rs
                        /\ xlsx' = matching
                        /\ IF matching = <<>>
                           THEN /\ out' = out \cup {"Nenhum XLSX encontrado"}
                                /\ Return(0)
                                /\ UNCHANGED i
                           ELSE IF args.cmd = "list-dataset-xlsx"
                           THEN /\ out' = out \cup {"Arquivos XLSX encontrados"}
                                /\ Return(0)
                                /\ UNCHANGED i
                           ELSE /\ out' = out \cup {"Foram encontrados"}
                                /\ pc' = "dl_loop"
                                /\ i' = 1
                                /\ UNCHANGED endvars
    /\ UNCHANGED <<cfgvars, dlvars, lgvars, svars>>

\* download_with_retry raises err: the except clause of line 307 catches it
\* and the loop goes on, or it reaches main
RaiseToLoop(err) ==
    /\ ret' = [kind |-> "raise", value |-> <<>>, exc |-> err]
    /\ IF catches_download_error(err.cls)
       THEN /\ out' = out \cup {"Falhou"}
            /\ i' = i + 1
            /\ pc' = "dl_loop"
            /\ UNCHANGED endvars
       ELSE /\ Escape(err.cls)
            /\ UNCHANGED <<i, out>>

RetryOrRaise(err) ==
    IF attempt < args.retry
    THEN /\ attempt' = attempt + 1
         /\ pc' = "dl_try"
         /\ UNCHANGED <<ret, i, out, endvars>>
    ELSE /\ RaiseToLoop(err)
         /\ UNCHANGED attempt

\* download_with_retry, after a failed attempt has been reported and slept
\* on: the next iteration of the for loop, or "raise last_err"
\* (RetryOrRaise above)

\* one iteration of the loop of line 296, up to the first attempt
DownloadLoop ==
    /\ pc = "dl_loop"
    /\ IF i > Len(xlsx)
       THEN /\ out' = out \cup {"Concluido"}
            /\ Return(0)
            /\ UNCHANGED <<i, dlvars>>
       ELSE IF res_url(xlsx[i]) = <<>>
       THEN /\ out' = out \cup {"Resource sem URL, pulando"}
            /\ i' = i + 1
            /\ UNCHANGED <<pc, endvars, dlvars>>
       ELSE /\ calls' = Append(calls, i)
            /\ last_err' = NoErr
            /\ events' = <<>>
            /\ touched' = {}
            /\ tried' = NoTry
            /\ UNCHANGED fs
            /\ IF 1 <= args.retry
               THEN /\ attempt' = 1
                    /\ ret' = NoRet
                    /\ pc' = "dl_try"
                    /\ UNCHANGED <<i, out, endvars>>
               ELSE \* empty range: "assert last_err is not None" fails
                    /\ RaiseToLoop([cls |-> "AssertionError", att |-> 0])
                    /\ attempt' = 0
    /\ UNCHANGED <<cfgvars, used, show, dsvars, lgvars, interrupted, svars>>

\* download_with_retry passes its own timeout_s, which defaults to the
\* value bound at def time (line 306 passes none)
download_timeout == default_timeout_s

\* one attempt: download_stream and the except clause of line 247
DownloadTry ==
    /\ pc = "dl_try"
    /\ used' = used \cup {download_timeout}
    /\ \E resp \in Responses, o \in StreamOutcomes :
        LET d == download_stream(fs, resp, res_pretty_name(xlsx[i]), o)
            tried_ev == [t |-> "attempt", n |-> attempt]
            fail_ev == [t |-> "fail", n |-> attempt]
            err == [cls |-> d.exc, att |-> attempt]
        IN  /\ fs' = d.fs
            /\ touched' = touched \cup {p \in AllPaths : d.fs[p] # fs[p]}
            /\ tried' = [n |-> attempt, outcome |-> o, exc |-> d.exc,
                         out_path |-> d.out_path]
            /\ interrupted' = (interrupted \/ o = "interrupt")
            /\ IF d.exc = None
               THEN /\ ret' = [kind |-> "return", value |-> d.value, exc |-> NoErr]
                    /\ events' = Append(events, tried_ev)
                    /\ i' = i + 1
                    /\ pc' = "dl_loop"
                    /\ UNCHANGED <<attempt, last_err, out, endvars>>
               ELSE IF catches_attempt_error(d.exc)
               THEN /\ last_err' = err
                    /\ events' = events \o <<tried_ev, fail_ev>>
                    /\ IF should_sleep(attempt, args.retry)
                       THEN /\ pc' = "dl_sleep"
                            /\ UNCHANGED <<attempt, ret, i, out, endvars>>
                       ELSE RetryOrRaise(err)
               ELSE /\ events' = Append(events, tried_ev)
                    /\ Escape(d.exc)
                    /\ UNCHANGED <<attempt, last_err, ret, i, out>>
    /\ UNCHANGED <<cfgvars, show, dsvars, calls, lgvars, svars>>

\* time.sleep(sleep_between), line 251
DownloadSleep ==
    /\ pc = "dl_sleep"
    /\ \E o \in {"ok", "interrupt"} :
          /\ interrupted' = (interrupted \/ o = "interrupt")
          /\ IF o = "ok"
             THEN /\ events' = Append(events, [t |-> "sleep", n |-> attempt])
                  /\ RetryOrRaise(last_err)
             ELSE /\ Escape("KeyboardInterrupt")
                  /\ UNCHANGED <<events, attempt, ret, i, out>>
    /\ UNCHANGED <<cfgvars, used, show, dsvars, last_err, touched, calls, tried,
                   fs, lgvars, svars>>

(***************************************************************************)
(* list-group                                                              *)
(***************************************************************************)
\* line 316
fmt_filter == lower(strip_tok(args.format))

\* line 349: the resource is skipped
filtered_out(r, flt) ==
    /\ flt # ""
    /\ lower(strip_tok(r.format)) # flt
    /\ ~ endswith(lower_seq(res_url(r)), <<".", flt>>)

csv_row(pkg, r) ==
    [dataset_title |-> or_str(pkg.title, or_str(pkg.name, pkg.id)),
     dataset_name |-> or_str(pkg.name, pkg.id),
     dataset_id |-> pkg.id,
     resource_name |-> res_pretty_name(r),
     resource_format |-> strip_tok(r.format),
     resource_url |-> res_url(r),
     resource_id |-> r.id]

\* the rows the loop of line 344 appends for one dataset
dataset_rows(pkg, rs, flt) ==
    LET kept(r) == ~ filtered_out(r, flt)
        keep == SelectSeq(rs, kept)
    IN  [k \in 1..Len(keep) |-> csv_row(pkg, keep[k])]

\* the initial ckan_group_show, lines 319-326
GroupShow ==
    /\ pc = "group_show"
    /\ used' = used \cup {make_client}
    /\ \E o \in CkanOutcomes :
          /\ interrupted' = (interrupted \/ o = "interrupt")
          /\ show' = o
          /\ IF ckan_call(o) # None
             THEN /\ Escape(ckan_call(o))
                  /\ UNCHANGED <<packages, i, out>>
             ELSE \E ps \in PkgLists :
                    /\ packages' = ps
                    /\ IF ps = <<>>
                       THEN /\ out' = out \cup {"Nenhum dataset encontrado"}
                            /\ Return(0)
                            /\ UNCHANGED i
                       ELSE /\ pc' = "lg_loop"
                            /\ i' = 1
                            /\ UNCHANGED <<out, endvars>>
    /\ UNCHANGED <<cfgvars, dsvars, dlvars, fetched, rows, csv_file, svars>>

\* one iteration of the loop of line 327
GroupDataset ==
    /\ pc = "lg_loop"
    /\ i <= Len(packages)
    /\ used' = used \cup {make_client}
    /\ \E o \in CkanOutcomes :
          /\ interrupted' = (interrupted \/ o = "interrupt")
          /\ IF ckan_call(o) = None
             THEN \E rs \in GroupResLists :
                    /\ fetched' = Append(fetched, [ok |-> TRUE, resources |-> rs])
                    /\ rows' = rows \o dataset_rows(packages[i], rs, fmt_filter)
                    /\ out' = IF rs = <<>> THEN out \cup {"(sem resources)"} ELSE out
                    /\ i' = i + 1
                    /\ UNCHANGED <<pc, endvars>>
             ELSE IF catches_fetch_error(ckan_call(o))
             THEN /\ fetched' = Append(fetched, [ok |-> FALSE, resources |-> <<>>])
                  /\ out' = out \cup {"Falha ao obter resources"}
                  /\ i' = i + 1
                  /\ UNCHANGED <<pc, rows, endvars>>
             ELSE /\ Escape(ckan_call(o))
                  /\ UNCHANGED <<fetched, rows, out, i>>
    /\ UNCHANGED <<cfgvars, show, dsvars, dlvars, packages, csv_file, svars>>

\* variant: the CSV is written whenever a destination was given
csv_written_whenever_requested(csv_out, rws) == csv_out # ""

\* line 363: the CSV is written
csv_written(csv_out, rws) == csv_out # "" /\ rws # <<>>

CsvHeader == <<"dataset_title", "dataset_name", "dataset_id", "resource_name",
               "resource_format", "resource_url", "resource_id">>

\* what writing the CSV can end in
CsvOutcomes == {"ok", "oserror", "interrupt"}

\* lines 363-377, after the loop
GroupExport ==
    /\ pc = "lg_loop"
    /\ i > Len(packages)
    /\ IF csv_written(args.csv, rows)
       THEN \E o \in CsvOutcomes :
              /\ interrupted' = (interrupted \/ o = "interrupt")
              /\ IF o = "ok"
                 THEN /\ csv_file' = <<CsvHeader>> \o rows
                      /\ out' = out \cup {"Exportado CSV"}
                      /\ Return(0)
                 ELSE /\ Escape(IF o = "oserror" THEN "OSError" ELSE "KeyboardInterrupt")
                      /\ UNCHANGED <<csv_file, out>>
       ELSE /\ out' = IF args.csv # "" /\ rows = <<>>
                      THEN out \cup {"Nada para exportar"} ELSE out
            /\ Return(0)
            /\ UNCHANGED <<csv_file, interrupted>>
    /\ UNCHANGED <<cfgvars, used, show, dsvars, i, dlvars, packages, fetched, rows,
                   svars>>

Next ==
    \/ Main
    \/ PackageShow
    \/ DownloadLoop
    \/ DownloadTry
    \/ DownloadSleep
    \/ GroupShow
    \/ GroupDataset
    \/ GroupExport

Spec == Init /\ [][Next]_vars

(***************************************************************************)
(* sanitize_filename applied to every name of at most MaxLen characters    *)
(***************************************************************************)
InitSan ==
    /\ InitMain
    /\ fs = EmptyDir
    /\ san_in \in Strings(MaxLen)
    /\ san_out = <<>>
    /\ san_pc = "call"

Sanitize ==
    /\ san_pc = "call"
    /\ san_out' = sanitize_filename(san_in)
    /\ san_pc' = "returned"
    /\ UNCHANGED <<san_in, mvars>>

NextSan == Sanitize

SpecSan == InitSan /\ [][NextSan]_vars

(***************************************************************************)
(* Properties                                                              *)
(***************************************************************************)
Ev(type, n) == [t |-> type, n |-> n]

\* k failed attempts, each reported and slept on
RECURSIVE FailedRounds(_)
FailedRounds(k) ==
    IF k = 0 THEN <<>>
    ELSE FailedRounds(k - 1) \o <<Ev("attempt", k), Ev("fail", k), Ev("sleep", k)>>

\* C1: when download_with_retry returns (max_attempts >= 1), it succeeded on
\* some attempt k <= max_attempts: it made exactly the attempts 1..k, reported
\* the failures 1..k-1 in order, slept once after each of them and before the
\* next attempt, and returns the path attempt k produced.
C1_SuccessOnAttemptK ==
    (ret.kind = "return" /\ args.retry >= 1) =>
        \E k \in 1..args.retry :
            /\ events = FailedRounds(k - 1) \o <<Ev("attempt", k)>>
            /\ tried.n = k
            /\ tried.exc = None
            /\ ret.value = tried.out_path

C1_Witness ==
    /\ ret.kind = "return"
    /\ tried.n = 2
    /\ Len(events) = 4

\* C2: when every attempt fails (max_attempts >= 1), download_with_retry makes
\* exactly max_attempts attempts, sleeps after each failure but the last, and
\* raises the error of the last attempt.
C2_Exhaustion ==
    (ret.kind = "raise" /\ args.retry >= 1) =>
        /\ events = FailedRounds(args.retry - 1)
                      \o <<Ev("attempt", args.retry), Ev("fail", args.retry)>>
        /\ tried.n = args.retry
        /\ ret.exc = [cls |-> tried.exc, att |-> args.retry]

C2_Witness ==
    /\ ret.kind = "raise"
    /\ args.retry = 2
    /\ Len(events) = 5
    /\ ret.exc.att = 2

IsPartFile(p) == p # <<>> /\ p[Len(p)] = ".part"

\* C3 (as claimed): after a successful download_with_retry the final file is
\* complete and no ".part" file created during the call exists.
C3_NoPartAfterSuccess ==
    ret.kind = "return" =>
        /\ fs[ret.value] = "full"
        /\ \A p \in touched : IsPartFile(p) => fs[p] = "absent"

\* C3 (amended): after a successful download_with_retry the final file is
\* complete and the ".part" file of that final name does not exist; the
\* ".part" files the call's failed attempts created under other resolved
\* names are still there.
C3_NoPartOfFinalName ==
    ret.kind = "return" =>
        /\ fs[ret.value] = "full"
        /\ fs[ret.value \o <<".part">>] = "absent"
        /\ \A p \in touched :
              (IsPartFile(p) /\ p # ret.value \o <<".part">>) => fs[p] = "partial" \/ fs[p] = "full"

\* a success after a failed attempt that left the ".part" of the same name
C3_Witness ==
    /\ ret.kind = "return"
    /\ (ret.value \o <<".part">>) \in touched
    /\ fs[ret.value \o <<".part">>] = "absent"

\* the resources the claim says are downloaded, in list order
WantedDownloads ==
    LET wanted(r) == is_xlsx_resource(r) /\ (r.url # <<>> \/ r.download_url # <<>>)
    IN  SelectSeq(resources, wanted)

\* C4: once the initial package_show has succeeded and the user does not
\* interrupt, action_download_dataset_xlsx ends with status 0 having invoked
\* download_with_retry exactly once, in list order, for each XLSX resource
\* with a URL, whatever downloads failed.
C4_FailureIsolation ==
    (pc = "done" /\ args.cmd = "download-dataset-xlsx" /\ show = "ok" /\ ~ interrupted) =>
        /\ exit_code = 0
        /\ top_exc = None
        /\ [k \in 1..Len(calls) |-> xlsx[calls[k]]] = WantedDownloads
        /\ \A k \in 1..(Len(calls) - 1) : calls[k] < calls[k + 1]

\* the first download failed on every attempt, the second one succeeded
C4_Witness ==
    /\ pc = "done"
    /\ args.cmd = "download-dataset-xlsx"
    /\ calls = <<1, 2>>
    /\ "Falhou" \in out
    /\ ret.kind = "return"
    /\ args.retry = 2

\* the resource passes the format filter flt
PassesFilter(r, flt) ==
    \/ flt = ""
    \/ lower(strip_tok(r.format)) = flt
    \/ endswith(lower_seq(IF r.url # <<>> THEN r.url ELSE r.download_url), <<".", flt>>)

RECURSIVE ExpectedRows(_)
ExpectedRows(k) ==
    IF k = 0 THEN <<>>
    ELSE LET passes(r) == PassesFilter(r, lower(strip_tok(args.format)))
             keep == IF fetched[k].ok
                     THEN SelectSeq(fetched[k].resources, passes) ELSE <<>>
         IN  ExpectedRows(k - 1) \o [j \in 1..Len(keep) |-> csv_row(packages[k], keep[j])]

\* C5: when action_list_group finishes without an interrupt, every dataset of
\* the group has been processed and the rows are exactly, in dataset order
\* then resource order, the resources passing the filter of the datasets
\* whose fetch succeeded.
C5_RowAccumulation ==
    (pc = "done" /\ args.cmd = "list-group" /\ show = "ok" /\ ~ interrupted) =>
        /\ Len(fetched) = Len(packages)
        /\ rows = ExpectedRows(Len(fetched))

\* the first dataset's fetch failed, the second one contributed rows, and
\* the filter dropped one of its resources
C5_Witness ==
    /\ pc = "done"
    /\ args.cmd = "list-group"
    /\ Len(fetched) = 2
    /\ ~ fetched[1].ok
    /\ fetched[2].ok
    /\ rows # <<>>
    /\ Len(rows) < Len(fetched[2].resources)

ListGroupCompleted ==
    /\ pc = "done"
    /\ args.cmd = "list-group"
    /\ show = "ok"
    /\ top_exc = None

\* C6 (as claimed): with a CSV destination, the file is written iff a row was
\* accumulated, and with zero rows the operation reports that nothing was
\* exported.
C6_ExportIffRows ==
    (ListGroupCompleted /\ args.csv # "") =>
        /\ (csv_file # <<>>) <=> (rows # <<>>)
        /\ rows = <<>> => "Nada para exportar" \in out

\* C6 (amended): with a CSV destination, the file (header plus rows) is
\* written iff a row was accumulated; with zero rows the operation reports
\* that nothing was exported when the group has datasets, and only that no
\* dataset was found when it has none.
C6_ExportIffRowsOrEmptyGroup ==
    (ListGroupCompleted /\ args.csv # "") =>
        /\ (csv_file # <<>>) <=> (rows # <<>>)
        /\ csv_file # <<>> => csv_file = <<CsvHeader>> \o rows
        /\ (rows = <<>> /\ packages # <<>>) => "Nada para exportar" \in out
        /\ packages = <<>> =>
              /\ "Nada para exportar" \notin out
              /\ "Nenhum dataset encontrado" \in out

\* the filter excluded every resource of a fetched dataset
C6_Witness ==
    /\ ListGroupCompleted
    /\ args.csv # ""
    /\ rows = <<>>
    /\ csv_file = <<>>
    /\ "Nada para exportar" \in out
    /\ \E k \in 1..Len(fetched) : fetched[k].ok /\ fetched[k].resources # <<>>

\* C7: every HTTP request of an invocation uses the timeout given with
\* --timeout.
C7_PerInvocationTimeout ==
    pc # "main" => used \subseteq {args.timeout}

\* C8: main returns 130 after an interrupt, anywhere, and nothing more is
\* processed; otherwise 2 when a transport or status error escapes (as from
\* the initial package_show / group_show), 1 when another error escapes (as
\* for an unsuccessful envelope), and 0 when the operation completes.
C8_ExitCodes ==
    /\ interrupted => pc = "done"
    /\ pc = "done" =>
          /\ interrupted => exit_code = 130
          /\ (~ interrupted /\ show \in {"status", "connect"}) => exit_code = 2
          /\ (~ interrupted /\ show = "unsuccessful") => exit_code = 1
          /\ (~ interrupted /\ top_exc = None) => exit_code = 0
          /\ (~ interrupted /\ top_exc \in {"HTTPStatusError", "ConnectError", "ReadError"})
                => exit_code = 2
          /\ (~ interrupted /\ top_exc \in {"RuntimeError", "OSError", "AssertionError"})
                => exit_code = 1
          /\ (~ interrupted /\ show = "ok" /\ args.cmd # "list-group") => exit_code = 0

\* interrupted during the second attempt of a download
C8_Witness ==
    /\ pc = "done"
    /\ interrupted
    /\ exit_code = 130
    /\ tried.outcome = "interrupt"
    /\ tried.n = 2

\* C9: the result of sanitize_filename is non-empty and has no path
\* separator and no control character.
C9_SanitizeSafe ==
    san_pc = "returned" =>
        /\ san_out # <<>>
        /\ \A k \in 1..Len(san_out) : san_out[k] \notin (PathSeparators \cup ControlChars)

\* C10: a download_stream attempt that fails changes no file but the ".part"
\* file of its resolved name, which it leaves behind; the final file keeps
\* its content; on a non-2xx status no file changes at all.
C10_FailedAttemptFrame ==
    [][(pc = "dl_try" /\ tried'.exc # None) =>
          /\ \A p \in AllPaths :
                fs'[p] # fs[p] =>
                    /\ IsPartFile(p)
                    /\ p = tried'.out_path \o <<".part">>
                    /\ fs'[p] # "absent"
          /\ tried'.out_path # <<>> => fs'[tried'.out_path] = fs[tried'.out_path]
          /\ tried'.outcome = "status" => fs' = fs]_vars

\* a mid-stream failure next to an earlier download of the same name
C10_Witness ==
    /\ tried.outcome = "read"
    /\ fs[tried.out_path] = "old"
    /\ fs[tried.out_path \o <<".part">>] = "partial"

====
